---------------------------- MODULE Spec2Model ----------------------------
(***************************************************************************)
(* Duty Tracker: the fairness bookkeeping (app/crud.py,                    *)
(* update_fairness_tracking, get_fairness_stats), the chat roster import   *)
(* (parse_and_create_chat_assignments) and the bulk rebuild (app/main.py,  *)
(* recalculate_fairness), over the entity store of app/models.py.          *)
(*                                                                         *)
(* Text is modelled character by character: a Python str is a sequence of  *)
(* one-character strings, so that upper(), strip(), split(), "in",         *)
(* startswith() and the rank/name regular expression are computed the way  *)
(* the code computes them.  The four emoji of the chat format are single   *)
(* characters written "<van>", "<laptop>", "<barrier>", "<rickshaw>".      *)
(*                                                                         *)
(* Time is counted in whole days (datetime.utcnow() and datetime.now()     *)
(* are read at day granularity); a duty date is a day number.  A fairness  *)
(* score is kept times ten, as the integer 10*points - days, where the     *)
(* code computes the float points - days*0.1.                              *)
(*                                                                         *)
(* A request works in one SQLAlchemy session made with autoflush=False     *)
(* (app/database.py): objects added to the session are pending and no      *)
(* query sees them until flush() or commit() writes them.                  *)
(***************************************************************************)
EXTENDS Integers, Sequences, FiniteSets, TLC

VARIABLES
    personnel,      \* table personnel: rows in id order, id = index
    posts,          \* table posts: rows in id order, id = index
    assignments,    \* table assignments, in insertion order
    fairness,       \* table fairness_tracking, in insertion order
    today,          \* the wall clock, in days
    status,         \* the HTTP status of the last response
    in_flight       \* the requests that have read and not yet committed

vars == <<personnel, posts, assignments, fairness, today, status, in_flight>>

(***************************************************************************)
(* Bounds of the model.                                                    *)
(***************************************************************************)
MaxAssignments == 2     \* rows of table assignments
MaxNewPosts == 1        \* posts created after the seed data
MaxNewPersonnel == 1    \* personnel created after the seed data
MaxTicks == 1           \* advances of the clock
TickDays == 11          \* days one advance of the clock lasts

(***************************************************************************)
(* Python str operations.                                                  *)
(***************************************************************************)
LowerChars == <<"a", "b", "c", "d", "e", "f", "g", "h", "i", "j", "k", "l", "m",
                "n", "o", "p", "q", "r", "s", "t", "u", "v", "w", "x", "y", "z">>
UpperChars == <<"A", "B", "C", "D", "E", "F", "G", "H", "I", "J", "K", "L", "M",
                "N", "O", "P", "Q", "R", "S", "T", "U", "V", "W", "X", "Y", "Z">>

IsLower(c) == \E i \in 1..Len(LowerChars) : LowerChars[i] = c
IsUpper(c) == \E i \in 1..Len(UpperChars) : UpperChars[i] = c
IsLetter(c) == IsLower(c) \/ IsUpper(c)
IsSpace(c) == c \in {" ", "\t", "\n", "\r"}

\* c.upper() for the lower-case letters
UpperOf ==
    [c \in {LowerChars[i] : i \in 1..Len(LowerChars)} |->
        UpperChars[CHOOSE i \in 1..Len(LowerChars) : LowerChars[i] = c]]

UpperChar(c) == IF c \in DOMAIN UpperOf THEN UpperOf[c] ELSE c

\* str.upper()
upper(s) == [i \in 1..Len(s) |-> UpperChar(s[i])]

\* sub in s
contains(s, sub) ==
    \E i \in 1..(Len(s) - Len(sub) + 1) : SubSeq(s, i, i + Len(sub) - 1) = sub

\* s.startswith(pre)
startswith(s, pre) == Len(pre) <= Len(s) /\ SubSeq(s, 1, Len(pre)) = pre

SetMin(S) == CHOOSE x \in S : \A y \in S : x <= y
SetMax(S) == CHOOSE x \in S : \A y \in S : y <= x

\* Op(v), the value v computed once (a Python local variable)
With(v, Op(_)) == CHOOSE r \in {Op(x) : x \in {v}} : TRUE

\* str.strip()
strip(s) ==
    LET keep == {i \in 1..Len(s) : ~IsSpace(s[i])}
    IN  IF keep = {} THEN <<>> ELSE SubSeq(s, SetMin(keep), SetMax(keep))

\* s.split(sep) for a one-character separator: the pieces between the
\* places of sep, in order
split(s, sep) ==
    LET at == {i \in 1..Len(s) : s[i] = sep}
        place(k) == IF k = 0 THEN 0
                    ELSE IF k > Cardinality(at) THEN Len(s) + 1
                    ELSE CHOOSE i \in at : Cardinality({j \in at : j < i}) = k - 1
    IN  [k \in 1..(Cardinality(at) + 1) |->
            SubSeq(s, place(k - 1) + 1, place(k) - 1)]

\* s.split()[-1]: the last whitespace-separated word (s holds one)
last_word(s) ==
    LET t == strip(s)
        sp == {i \in 1..Len(t) : IsSpace(t[i])}
    IN  IF sp = {} THEN t ELSE SubSeq(t, SetMax(sp) + 1, Len(t))

(***************************************************************************)
(* Names of the seed data (app/main.py, initialize_data).                  *)
(***************************************************************************)
s_SOG == <<"S", "O", "G">>
s_CQ == <<"C", "Q">>
s_ECP == <<"E", "C", "P">>
s_ECP1 == <<"E", "C", "P", "1">>
s_ECP2 == <<"E", "C", "P", "2">>
s_ECP3 == <<"E", "C", "P", "3">>
s_VCP == <<"V", "C", "P">>
s_ROVER == <<"R", "O", "V", "E", "R">>
s_StandBy == <<"S", "t", "a", "n", "d", " ", "b", "y">>
s_STANDBY == <<"S", "T", "A", "N", "D", " ", "B", "Y">>
s_SGT == <<"S", "G", "T">>
s_SPC == <<"S", "P", "C">>
s_PFC == <<"P", "F", "C">>
s_Lastre == <<"L", "a", "s", "t", "r", "e">>
s_Miller == <<"M", "i", "l", "l", "e", "r">>
s_Palmer == <<"P", "a", "l", "m", "e", "r">>
s_Annex == <<"A", "n", "n", "e", "x">>
s_Millers == <<"M", "i", "l", "l", "e", "r", "s">>
s_sog == <<"s", "o", "g">>

\* table post_types after initialize_data; id = index
post_types == <<
    [id |-> 1, name |-> s_SOG, difficulty_weight |-> 5],
    [id |-> 2, name |-> s_CQ, difficulty_weight |-> 3],
    [id |-> 3, name |-> s_ECP, difficulty_weight |-> 4],
    [id |-> 4, name |-> s_VCP, difficulty_weight |-> 3],
    [id |-> 5, name |-> s_ROVER, difficulty_weight |-> 3],
    [id |-> 6, name |-> s_StandBy, difficulty_weight |-> 1] >>

\* table posts after initialize_data
SeedPosts == <<
    [id |-> 1, name |-> s_SOG, post_type_id |-> 1],
    [id |-> 2, name |-> s_CQ, post_type_id |-> 2],
    [id |-> 3, name |-> s_ECP1, post_type_id |-> 3],
    [id |-> 4, name |-> s_ECP2, post_type_id |-> 3],
    [id |-> 5, name |-> s_ECP3, post_type_id |-> 3],
    [id |-> 6, name |-> s_VCP, post_type_id |-> 4],
    [id |-> 7, name |-> s_ROVER, post_type_id |-> 5],
    [id |-> 8, name |-> s_StandBy, post_type_id |-> 6] >>

\* table personnel after initialize_data (the first and the seventh of its roster)
SeedPersonnel == <<
    [id |-> 1, rank |-> s_SGT, name |-> s_Lastre, is_active |-> TRUE],
    [id |-> 2, rank |-> s_SPC, name |-> s_Miller, is_active |-> TRUE] >>

\* Python None where a row is expected: a row whose id is 0
NoRow == [id |-> 0]
\* Python None where a date is expected (a NULL last_assignment_date)
NoDate == -1

(***************************************************************************)
(* Lookups (the relationships of app/models.py).                           *)
(***************************************************************************)
\* db.query(Post).filter(Post.id == post_id).first()
get_post(ps, post_id) ==
    IF post_id \in 1..Len(ps) THEN ps[post_id] ELSE NoRow

\* Post.post_type: the row of post_types the foreign key names, or None
post_type_of(post) ==
    IF post.post_type_id \in 1..Len(post_types)
    THEN post_types[post.post_type_id] ELSE NoRow

\* Personnel.full_name
full_name(p) == p.rank \o <<" ">> \o p.name

(***************************************************************************)
(* The session of one request (app/database.py, SessionLocal and get_db).  *)
(* assignments and fairness are the rows the session's queries see;        *)
(* new_assignments and new_fairness are the objects added with db.add()    *)
(* and not yet flushed, which no query sees (autoflush=False).  A row a    *)
(* query returned is the session's own object, so a change made to it is   *)
(* seen by the next query that returns it.                                 *)
(***************************************************************************)
Session(personnel_rows, post_rows, assignment_rows, fairness_rows) ==
    [ personnel |-> personnel_rows, posts |-> post_rows,
      assignments |-> assignment_rows, fairness |-> fairness_rows,
      new_assignments |-> <<>>, new_fairness |-> <<>>, error |-> "" ]

SessionLocal == Session(personnel, posts, assignments, fairness)

\* db.flush(): the pending objects are written, in the order they were added
flush(db) ==
    [db EXCEPT !.assignments = @ \o db.new_assignments,
               !.fairness = @ \o db.new_fairness,
               !.new_assignments = <<>>,
               !.new_fairness = <<>>]

\* db.commit(): a flush, then the transaction is made durable
commit(db) == flush(db)

\* db.add(obj) for an Assignment
add_assignment(db, a) == [db EXCEPT !.new_assignments = Append(@, a)]

\* db.add(obj) for a FairnessTracking
add_fairness(db, f) == [db EXCEPT !.new_fairness = Append(@, f)]

\* the status of the response: error_status when the handler raised.  An
\* exception create_assignment lets through is answered with 500; the
\* import and the recalculation catch theirs and raise
\* HTTPException(status_code=400), main.py 265-269 and 357-359.
respond(raised, error_status) == IF raised THEN error_status ELSE 200

(***************************************************************************)
(* crud.update_fairness_tracking                                           *)
(***************************************************************************)
\* FairnessTracking(person_id=..., total_assignments=0, ...), crud.py 95-100
NewFairness(person_id) ==
    [ person_id |-> person_id, total_assignments |-> 0,
      total_difficulty_points |-> 0, last_assignment_date |-> NoDate,
      consecutive_standby |-> 0 ]

\* a weight that does not look at the post type
DifficultyWeightFlat(post) == 1

\* crud.py 111-116: post.post_type.difficulty_weight or 1, else 1
DifficultyWeight(post) ==
    IF post.id # 0 /\ post_type_of(post).id # 0
    THEN IF post_type_of(post).difficulty_weight = 0
         THEN 1 ELSE post_type_of(post).difficulty_weight
    ELSE 1

\* crud.py 123-127: post.post_type.name is read whenever post is not None,
\* which raises AttributeError when post.post_type is None
StandbyRaises(post) == post.id # 0 /\ post_type_of(post).id = 0

\* crud.py 123-127: the streak after the update
NextStandby(post, streak) ==
    IF post.id = 0 THEN streak
    ELSE IF post_type_of(post).name # s_StandBy THEN 0
    ELSE streak + 1

\* crud.py 118-127: the record after one assignment to post at time now
Tracked(f, post, now) ==
    [f EXCEPT !.total_assignments = @ + 1,
              !.total_difficulty_points = @ + DifficultyWeight(post),
              !.last_assignment_date = now,
              !.consecutive_standby = NextStandby(post, @)]

\* crud.py 90-92: the rows the query for person_id finds (flushed rows only)
FairnessHits(db, person_id) ==
    {i \in 1..Len(db.fairness) : db.fairness[i].person_id = person_id}

update_fairness_tracking(db, person_id, post_id, now) ==
    LET hits == FairnessHits(db, person_id)
        post == get_post(db.posts, post_id)
    IN  IF StandbyRaises(post) THEN [db EXCEPT !.error = "AttributeError"]
        ELSE IF hits = {}
             THEN add_fairness(db, Tracked(NewFairness(person_id), post, now))
             ELSE [db EXCEPT !.fairness[SetMin(hits)] = Tracked(@, post, now)]

(***************************************************************************)
(* crud.create_assignment (POST /api/assignments)                          *)
(***************************************************************************)
\* Assignment(**assignment.dict()) with the defaults of schemas.AssignmentBase
AssignmentRow(person_id, post_id, duty_date, start_time, end_time) ==
    [ person_id |-> person_id, post_id |-> post_id, duty_date |-> duty_date,
      start_time |-> start_time, end_time |-> end_time, status |-> "assigned" ]

create_assignment(db, person_id, post_id, duty_date, now) ==
    LET db1 == add_assignment(db,
                   AssignmentRow(person_id, post_id, duty_date, "None", "None"))
        db2 == update_fairness_tracking(db1, person_id, post_id, now)
    IN  IF db2.error # "" THEN db2 ELSE commit(db2)

\* what the requests of the model are given
PersonIds == 1..Len(SeedPersonnel)
PostIds == {1, 8, Len(SeedPosts) + 1}
DutyDays == {0}

CreateAssignment(person_id, post_id, duty_date) ==
    LET db == create_assignment(SessionLocal, person_id, post_id, duty_date, today)
    IN  /\ Len(assignments) < MaxAssignments
        /\ IF db.error # ""
           THEN UNCHANGED <<assignments, fairness>>
           ELSE /\ assignments' = db.assignments
                /\ fairness' = db.fairness
        /\ status' = respond(db.error # "", 500)
        /\ UNCHANGED <<personnel, posts, today, in_flight>>

(***************************************************************************)
(* crud.create_post and crud.create_personnel                              *)
(***************************************************************************)
\* a post whose post_type_id names no row of post_types
CreatePost(name, post_type_id) ==
    /\ Len(posts) < Len(SeedPosts) + MaxNewPosts
    /\ posts' = Append(posts, [id |-> Len(posts) + 1, name |-> name,
                               post_type_id |-> post_type_id])
    /\ status' = 200
    /\ UNCHANGED <<personnel, assignments, fairness, today, in_flight>>

CreatePersonnel(rank, name, is_active) ==
    /\ Len(personnel) < Len(SeedPersonnel) + MaxNewPersonnel
    /\ personnel' = Append(personnel, [id |-> Len(personnel) + 1, rank |-> rank,
                                       name |-> name, is_active |-> is_active])
    /\ status' = 200
    /\ UNCHANGED <<posts, assignments, fairness, today, in_flight>>

(***************************************************************************)
(* crud.parse_and_create_chat_assignments: the text scan.                  *)
(***************************************************************************)
\* crud.py 360-383: the section markers in the order of the if/elif chain,
\* each with the value current_post_type takes
Markers == <<
    [marker |-> <<"S", "O", "G", ":">>, section |-> "SOG"],
    [marker |-> <<"C", "Q", ":">>, section |-> "CQ"],
    [marker |-> <<"E", "C", "P", "1", ":">>, section |-> "ECP1"],
    [marker |-> <<"E", "C", "P", "2", ":">>, section |-> "ECP2"],
    [marker |-> <<"E", "C", "P", "3", ":">>, section |-> "ECP3"],
    [marker |-> <<"V", "C", "P", ":">>, section |-> "VCP"],
    [marker |-> <<"R", "O", "V", "E", "R", ":">>, section |-> "ROVER"],
    [marker |-> <<"S", "t", "a", "n", "d", " ", "b", "y", ":">>,
     section |-> "STAND BY"] >>

\* crud.py 384: the prefixes of a line that is skipped
DecorativePrefixes == {
    <<"<van>">>, <<"<laptop>">>, <<"<barrier>">>, <<"<rickshaw>">>,
    <<"M", "e", "e", "t", " ", "a", "t">>, <<"O", "C", "P">> }

\* crud.py 388: the alternatives of the pattern's first group
RankTokens == {
    <<"P", "V", "2">>, <<"P", "F", "C">>, <<"S", "P", "C">>, <<"C", "P", "L">>,
    <<"S", "G", "T">>, <<"S", "S", "G">>, <<"S", "F", "C">>, <<"M", "S", "G">>,
    <<"S", "G", "M">> }

\* crud.py 338-347: post_mappings, with posts[0] as post
post_mappings(section) ==
    CASE section = "SOG" -> [type |-> s_SOG, post |-> s_SOG]
      [] section = "CQ" -> [type |-> s_CQ, post |-> s_CQ]
      [] section = "ECP1" -> [type |-> s_ECP, post |-> s_ECP1]
      [] section = "ECP2" -> [type |-> s_ECP, post |-> s_ECP2]
      [] section = "ECP3" -> [type |-> s_ECP, post |-> s_ECP3]
      [] section = "VCP" -> [type |-> s_VCP, post |-> s_VCP]
      [] section = "ROVER" -> [type |-> s_ROVER, post |-> s_ROVER]
      [] section = "STAND BY" -> [type |-> s_StandBy, post |-> s_StandBy]

\* the section of the first marker of the chain that line contains, "" if none
header_of(line) ==
    LET hit == {i \in 1..Len(Markers) : contains(line, Markers[i].marker)}
    IN  IF hit = {} THEN "" ELSE Markers[SetMin(hit)].section

\* a scan that skips no decorated line
never_decorative(line) == FALSE

is_decorative(line) == \E pre \in DecorativePrefixes : startswith(line, pre)

\* one match of (PV2|...|SGM)\s+([A-Za-z][A-Za-z-]*) starting at position i:
\* [ok, rank, last_name, end]
match_at(line, i) ==
    LET n == Len(line)
        rankOk == i + 2 <= n /\ SubSeq(line, i, i + 2) \in RankTokens
        afterSp == SetMin({j \in (i + 3)..(n + 1) : j = n + 1 \/ ~IsSpace(line[j])})
        nameOk == rankOk /\ afterSp > i + 3 /\ afterSp <= n /\ IsLetter(line[afterSp])
        stop == SetMin({j \in (afterSp + 1)..(n + 1) :
                           j = n + 1 \/ ~(IsLetter(line[j]) \/ line[j] = "-")})
    IN  IF nameOk
        THEN [ok |-> TRUE, rank |-> SubSeq(line, i, i + 2),
              last_name |-> SubSeq(line, afterSp, stop - 1), end |-> stop - 1]
        ELSE [ok |-> FALSE, rank |-> <<>>, last_name |-> <<>>, end |-> i]

\* re.findall(pattern, line): the matches from left to right, none overlapping
RECURSIVE findall_from(_, _)
findall_from(line, i) ==
    IF i > Len(line) THEN <<>>
    ELSE With(match_at(line, i), LAMBDA m :
             IF m.ok
             THEN <<[rank |-> m.rank, last_name |-> m.last_name]>>
                      \o With(m.end + 1, LAMBDA j : findall_from(line, j))
             ELSE With(i + 1, LAMBDA j : findall_from(line, j)))

findall(line) == findall_from(line, 1)

\* crud.py 384-391: the (section, rank, last_name) a personnel line gives
matches_of(line, current_post_type) ==
    With(findall(line), LAMBDA found :
        [k \in 1..Len(found) |->
            [section |-> current_post_type,
             rank |-> found[k].rank, last_name |-> found[k].last_name]])

\* a scan that takes the pairs of a marker line into the section the line
\* opens
RECURSIVE scan_lines_with_marker_pairs(_, _, _)
scan_lines_with_marker_pairs(lines, i, current_post_type) ==
    IF i > Len(lines) THEN <<>>
    ELSE With(<<strip(lines[i]), i + 1>>, LAMBDA at :
             IF at[1] = <<>>
             THEN scan_lines_with_marker_pairs(lines, at[2], current_post_type)
             ELSE With(header_of(at[1]), LAMBDA header :
                 IF header # ""
                 THEN matches_of(at[1], header)
                          \o scan_lines_with_marker_pairs(lines, at[2], header)
                 ELSE IF current_post_type # "" /\ ~is_decorative(at[1])
                      THEN matches_of(at[1], current_post_type)
                               \o scan_lines_with_marker_pairs(lines, at[2],
                                                               current_post_type)
                      ELSE scan_lines_with_marker_pairs(lines, at[2],
                                                        current_post_type)))

\* crud.py 352-391: the (section, rank, last_name) the loop over the lines
\* reaches line 391 with, in order
RECURSIVE scan_lines(_, _, _)
scan_lines(lines, i, current_post_type) ==
    IF i > Len(lines) THEN <<>>
    ELSE With(<<strip(lines[i]), i + 1>>, LAMBDA at :
             IF at[1] = <<>> THEN scan_lines(lines, at[2], current_post_type)
             ELSE With(header_of(at[1]), LAMBDA header :
                 IF header # ""
                 THEN scan_lines(lines, at[2], header)
                 ELSE IF current_post_type # "" /\ ~is_decorative(at[1])
                      THEN matches_of(at[1], current_post_type)
                               \o scan_lines(lines, at[2], current_post_type)
                      ELSE scan_lines(lines, at[2], current_post_type)))

name_matches(chat_text) ==
    With(split(strip(chat_text), "\n"), LAMBDA lines : scan_lines(lines, 1, ""))

(***************************************************************************)
(* The chat texts and duty date strings the requests of the model carry.   *)
(***************************************************************************)
\* "SOG: SGT Lastre\n\nCQ: SPC Miller"
ChatSameLine ==
    <<"S", "O", "G", ":", " ", "S", "G", "T", " ", "L", "a", "s", "t", "r", "e",
      "\n", "\n", "C", "Q", ":", " ", "S", "P", "C", " ", "M", "i", "l", "l", "e", "r">>

\* "SOG:\nSGT Lastre\n\nStand by:\nSGT Lastre"
ChatNextLine ==
    <<"S", "O", "G", ":", "\n", "S", "G", "T", " ", "L", "a", "s", "t", "r", "e",
      "\n", "\n", "S", "t", "a", "n", "d", " ", "b", "y", ":", "\n",
      "S", "G", "T", " ", "L", "a", "s", "t", "r", "e">>

ChatTexts == <<ChatSameLine, ChatNextLine>>

\* "CQ:\nSGT Nobody SPC Miller\nSGT Lastre": a pair that names nobody, before a pair
\* of the same line and a pair of a later line
ChatUnknownPerson ==
    <<"C", "Q", ":", "\n", "S", "G", "T", " ", "N", "o", "b", "o", "d", "y",
      " ", "S", "P", "C", " ", "M", "i", "l", "l", "e", "r", "\n", "S", "G",
      "T", " ", "L", "a", "s", "t", "r", "e">>

\* "SOG:\n<van> SGT Lastre\nOCP SGT Lastre\nSPC Miller": two decorated lines inside a section
ChatDecorated ==
    <<"S", "O", "G", ":", "\n", "<van>", " ", "S", "G", "T", " ", "L", "a",
      "s", "t", "r", "e", "\n", "O", "C", "P", " ", "S", "G", "T", " ", "L",
      "a", "s", "t", "r", "e", "\n", "S", "P", "C", " ", "M", "i", "l", "l",
      "e", "r">>

\* "SOG:\nSGT Lastre SGT Lastre\nSOG:\nSGT Lastre": one person twice on a line, and the section
\* repeated
ChatRepeated ==
    <<"S", "O", "G", ":", "\n", "S", "G", "T", " ", "L", "a", "s", "t", "r",
      "e", " ", "S", "G", "T", " ", "L", "a", "s", "t", "r", "e", "\n", "S",
      "O", "G", ":", "\n", "S", "G", "T", " ", "L", "a", "s", "t", "r", "e">>

\* "CQ:\nSGT Miller": the name of SPC Miller under another rank
ChatOtherRank ==
    <<"C", "Q", ":", "\n", "S", "G", "T", " ", "M", "i", "l", "l", "e", "r">>

\* "SGT Lastre\nCQ: SPC Miller\nSGT Lastre": a pair before the first marker, a pair on
\* the marker line, a pair on the line after
ChatBeforeMarker ==
    <<"S", "G", "T", " ", "L", "a", "s", "t", "r", "e", "\n", "C", "Q", ":",
      " ", "S", "P", "C", " ", "M", "i", "l", "l", "e", "r", "\n", "S", "G",
      "T", " ", "L", "a", "s", "t", "r", "e">>

MoreChatTexts ==
    <<ChatUnknownPerson, ChatDecorated, ChatRepeated, ChatOtherRank, ChatBeforeMarker>>

\* every chat text of the model; ChatTexts are the first of them
AllChatTexts == ChatTexts \o MoreChatTexts

\* the matches of each chat text (the scan reads nothing of the store)
ChatMatches == [t \in 1..Len(AllChatTexts) |-> name_matches(AllChatTexts[t])]

\* "2024-01-15", the day the model's clock starts from, and "tomorrow"
DutyDateStrings == <<
    <<"2", "0", "2", "4", "-", "0", "1", "-", "1", "5">>,
    <<"t", "o", "m", "o", "r", "r", "o", "w">> >>

\* the digits of a date string
Digits == <<"0", "1", "2", "3", "4", "5", "6", "7", "8", "9">>
IsDigit(c) == \E n \in 1..Len(Digits) : Digits[n] = c
DigitOf(c) == (CHOOSE n \in 1..Len(Digits) : Digits[n] = c) - 1

RECURSIVE int(_)
int(s) == IF s = <<>> THEN 0
          ELSE 10 * int(SubSeq(s, 1, Len(s) - 1)) + DigitOf(s[Len(s)])

is_leap(y) == y % 4 = 0 /\ (y % 100 # 0 \/ y % 400 = 0)
days_in_month(y, m) ==
    IF m = 2 THEN (IF is_leap(y) THEN 29 ELSE 28)
    ELSE IF m \in {4, 6, 9, 11} THEN 30 ELSE 31

\* date.toordinal: the days from 0001-01-01, that day being 1
toordinal(y, m, d) ==
    LET before == y - 1
        RECURSIVE days_before_month(_)
        days_before_month(k) ==
            IF k = 1 THEN 0 ELSE days_before_month(k - 1) + days_in_month(y, k - 1)
    IN  before * 365 + before \div 4 - before \div 100 + before \div 400
            + days_before_month(m) + d

\* the day the clock of the model starts at, 2024-01-15 (test_import.py 30)
EpochDay == toordinal(2024, 1, 15)

\* datetime.fromisoformat(s).date() on a string of the form YYYY-MM-DD: the
\* day, in days from EpochDay, and ok FALSE where it raises ValueError.
\* Strings with a time part are not among the inputs.
fromisoformat(s) ==
    IF /\ Len(s) = 10
       /\ s[5] = "-" /\ s[8] = "-"
       /\ \A i \in {1, 2, 3, 4, 6, 7, 9, 10} : IsDigit(s[i])
    THEN LET y == int(SubSeq(s, 1, 4))
             m == int(SubSeq(s, 6, 7))
             d == int(SubSeq(s, 9, 10))
         IN  IF y >= 1 /\ m \in 1..12 /\ d >= 1 /\ d <= days_in_month(y, m)
             THEN [ok |-> TRUE, day |-> toordinal(y, m, d) - EpochDay]
             ELSE [ok |-> FALSE, day |-> 0]
    ELSE [ok |-> FALSE, day |-> 0]

\* crud.py 310-315 for every duty date string
DutyDatesParsed ==
    [d \in 1..Len(DutyDateStrings) |-> fromisoformat(DutyDateStrings[d])]

\* crud.py 310-315: the day parsed, and the day of the clock where the
\* except branch is taken
duty_date_obj(d, now) ==
    IF DutyDatesParsed[d].ok THEN DutyDatesParsed[d].day ELSE now

(***************************************************************************)
(* crud.parse_and_create_chat_assignments: identity, post, ingestion.      *)
(***************************************************************************)
\* crud.get_personnel: the active personnel (the first 100)
get_personnel(db) ==
    SelectSeq(db.personnel, LAMBDA p : p.is_active)

\* d[key] = value on a dict kept as a sequence of [key, value] in insertion
\* order: a key already there keeps its place and takes the new value
dict_set(d, key, value) ==
    IF \E i \in 1..Len(d) : d[i].key = key
    THEN [i \in 1..Len(d) |-> IF d[i].key = key THEN [key |-> key, value |-> value]
                                               ELSE d[i]]
    ELSE Append(d, [key |-> key, value |-> value])

dict_has(d, key) == \E i \in 1..Len(d) : d[i].key = key
dict_get(d, key) == d[CHOOSE i \in 1..Len(d) : d[i].key = key].value

\* crud.py 321-330
RECURSIVE build_personnel_map(_, _, _)
build_personnel_map(all_personnel, i, map) ==
    IF i > Len(all_personnel) THEN map
    ELSE LET p == all_personnel[i]
             m1 == dict_set(map, upper(full_name(p)), p.id)
             m2 == dict_set(m1, upper(p.name), p.id)
             m3 == dict_set(m2, upper(last_word(p.name)), p.id)
         IN  With(<<m3, i + 1>>, LAMBDA next :
                 build_personnel_map(all_personnel, next[2], next[1]))

personnel_map_of(db) ==
    With(get_personnel(db), LAMBDA all_personnel :
        build_personnel_map(all_personnel, 1, <<>>))

\* crud.py 408-412: the first entry of the map whose key contains the name
\* and the rank, 0 if none
fuzzy_match(map, rank, last_name) ==
    LET hit == {i \in 1..Len(map) : /\ contains(map[i].key, upper(last_name))
                                    /\ contains(map[i].key, upper(rank))}
    IN  IF hit = {} THEN 0 ELSE map[SetMin(hit)].value

\* crud.py 401-414: one turn of the loop over search_keys
try_key(map, key, rank, last_name) ==
    IF dict_has(map, key) THEN dict_get(map, key)
    ELSE fuzzy_match(map, rank, last_name)

\* crud.py 394-418: the id of the person found, 0 if none
resolve_person(map, rank, last_name) ==
    LET search_keys == << upper(rank \o <<" ">> \o last_name),
                          upper(last_name),
                          upper(rank) \o <<" ">> \o upper(last_name) >>
        found == {k \in 1..3 : try_key(map, search_keys[k], rank, last_name) # 0}
    IN  IF found = {} THEN 0
        ELSE try_key(map, search_keys[SetMin(found)], rank, last_name)

\* crud.py 334 and 423: post_types.get(name.upper()) on the dict
\* {pt.name.upper(): pt}, where the last row with a key wins
get_post_type(type_name) ==
    LET hit == {i \in 1..Len(post_types) :
                   upper(post_types[i].name) = upper(type_name)}
    IN  IF hit = {} THEN NoRow ELSE post_types[SetMax(hit)]

\* crud.py 429-432
find_post(db, post_type, post_name) ==
    LET hit == {i \in 1..Len(db.posts) : /\ db.posts[i].post_type_id = post_type.id
                                         /\ db.posts[i].name = post_name}
    IN  IF hit = {} THEN NoRow ELSE db.posts[SetMin(hit)]

\* what crud.create_personnel is given in the model: a person who is not
\* active, and an active person whose name begins with the name of another
NewPersonnel == [rank |-> s_PFC, name |-> s_Palmer, is_active |-> FALSE]
OtherPersonnel == [rank |-> s_SGT, name |-> s_Millers, is_active |-> TRUE]
PeopleCreated == {NewPersonnel, OtherPersonnel}

\* every content table personnel takes in the model
RECURSIVE RostersUpTo(_)
RostersUpTo(k) ==
    IF k = 0 THEN {SeedPersonnel}
    ELSE RostersUpTo(k - 1) \cup
         { Append(r, [id |-> Len(r) + 1, rank |-> n.rank, name |-> n.name,
                      is_active |-> n.is_active]) :
             r \in {x \in RostersUpTo(k - 1) : Len(x) = Len(SeedPersonnel) + k - 1},
             n \in PeopleCreated }

Rosters == RostersUpTo(MaxNewPersonnel)

\* crud.py 394-418 for every match of every chat text, on every roster: the
\* same computation, done once (the scan and the roster decide it)
ChatPeople ==
    [r \in Rosters |->
        [t \in 1..Len(AllChatTexts) |->
            [k \in 1..Len(ChatMatches[t]) |->
                With(personnel_map_of([personnel |-> r]), LAMBDA map :
                    resolve_person(map, ChatMatches[t][k].rank,
                                   ChatMatches[t][k].last_name))]]]

\* crud.py 420-423 for every match of every chat text
ChatPostTypes ==
    [t \in 1..Len(AllChatTexts) |->
        [k \in 1..Len(ChatMatches[t]) |->
            get_post_type(post_mappings(ChatMatches[t][k].section).type)]]

\* crud.py 391-434: the (person id, post id) match k of chat text t resolves
\* to, <<0, 0>> when the person, the post type or the post is not found
candidate_of(db, t, k) ==
    LET person == ChatPeople[db.personnel][t][k]
        post_type == ChatPostTypes[t][k]
        post == IF post_type.id = 0 THEN NoRow
                ELSE find_post(db, post_type,
                               post_mappings(ChatMatches[t][k].section).post)
    IN  IF person = 0 \/ post.id = 0 THEN <<0, 0>> ELSE <<person, post.id>>

\* the import without the duplicate check of crud.py 437-441: a second run
\* of the same import is not empty under it
existing_unchecked(db, person_id, post_id, duty_date) == FALSE

\* a duplicate check that compares the person and the duty date only with
\* the rows of another post
existing_elsewhere(db, person_id, post_id, duty_date) ==
    \E i \in 1..Len(db.assignments) :
        /\ db.assignments[i].person_id = person_id
        /\ db.assignments[i].post_id # post_id
        /\ db.assignments[i].duty_date = duty_date

\* crud.py 437-441
existing(db, person_id, post_id, duty_date) ==
    \E i \in 1..Len(db.assignments) :
        /\ db.assignments[i].person_id = person_id
        /\ db.assignments[i].post_id = post_id
        /\ db.assignments[i].duty_date = duty_date

\* one candidate without the db.flush() of crud.py 453: the tracking row of a
\* person met twice in one import stays pending and is added twice
ingest_one_unflushed(st, c, duty_date, now) ==
    IF c[1] = 0 \/ existing(st.db, c[1], c[2], duty_date) \/ st.db.error # ""
    THEN st
    ELSE LET db1 == add_assignment(st.db,
                        AssignmentRow(c[1], c[2], duty_date, "06:00", "18:00"))
             db3 == update_fairness_tracking(db1, c[1], c[2], now)
         IN  [db |-> db3, assignments_created |-> st.assignments_created + 1]

\* one candidate where a pair that resolves to nobody ends the import with
\* an error instead of being skipped
ingest_one_strict(st, c, duty_date, now) ==
    IF c[1] = 0 THEN [st EXCEPT !.db.error = "LookupError"]
    ELSE IF existing(st.db, c[1], c[2], duty_date) \/ st.db.error # "" THEN st
    ELSE LET db1 == add_assignment(st.db,
                        AssignmentRow(c[1], c[2], duty_date, "06:00", "18:00"))
             db2 == flush(db1)
             db3 == update_fairness_tracking(db2, c[1], c[2], now)
         IN  [db |-> db3, assignments_created |-> st.assignments_created + 1]

\* one candidate where a pair whose assignment is already there is counted
\* as created
ingest_one_counting_existing(st, c, duty_date, now) ==
    IF c[1] = 0 \/ st.db.error # "" THEN st
    ELSE IF existing(st.db, c[1], c[2], duty_date)
    THEN [st EXCEPT !.assignments_created = @ + 1]
    ELSE LET db1 == add_assignment(st.db,
                        AssignmentRow(c[1], c[2], duty_date, "06:00", "18:00"))
             db2 == flush(db1)
             db3 == update_fairness_tracking(db2, c[1], c[2], now)
         IN  [db |-> db3, assignments_created |-> st.assignments_created + 1]

\* one candidate where update_fairness_tracking is also called for a pair
\* whose assignment is already there
ingest_one_recording_existing(st, c, duty_date, now) ==
    IF c[1] = 0 \/ st.db.error # "" THEN st
    ELSE IF existing(st.db, c[1], c[2], duty_date)
    THEN [st EXCEPT !.db = update_fairness_tracking(st.db, c[1], c[2], now)]
    ELSE LET db1 == add_assignment(st.db,
                        AssignmentRow(c[1], c[2], duty_date, "06:00", "18:00"))
             db2 == flush(db1)
             db3 == update_fairness_tracking(db2, c[1], c[2], now)
         IN  [db |-> db3, assignments_created |-> st.assignments_created + 1]

\* crud.py 436-464: one candidate
ingest_one(st, c, duty_date, now) ==
    IF c[1] = 0 \/ existing(st.db, c[1], c[2], duty_date) \/ st.db.error # ""
    THEN st
    ELSE LET db1 == add_assignment(st.db,
                        AssignmentRow(c[1], c[2], duty_date, "06:00", "18:00"))
             db2 == flush(db1)
             db3 == update_fairness_tracking(db2, c[1], c[2], now)
         IN  [db |-> db3, assignments_created |-> st.assignments_created + 1]

\* crud.py 391-470: the loop over the matches of chat text t
RECURSIVE ingest(_, _, _, _, _)
ingest(st, t, k, duty_date, now) ==
    IF k > Len(ChatMatches[t]) THEN st
    ELSE ingest(ingest_one(st, candidate_of(st.db, t, k), duty_date, now),
                t, k + 1, duty_date, now)

\* the whole function on chat text t and duty date string d: the session
\* after db.commit() and the count returned
parse_and_create_chat_assignments(db, t, duty_date, now) ==
    LET st == ingest([db |-> db, assignments_created |-> 0], t, 1,
                     duty_date_obj(duty_date, now), now)
    IN  IF st.db.error # "" THEN st ELSE [st EXCEPT !.db = commit(@)]

\* POST /api/import-chat with chat text t and duty date string d
ImportChat(t, d) ==
    LET r == parse_and_create_chat_assignments(
                 SessionLocal, t, d, today)
    IN  /\ Len(assignments) + r.assignments_created <= MaxAssignments
        /\ IF r.db.error # ""
           THEN UNCHANGED <<assignments, fairness>>
           ELSE /\ assignments' = r.db.assignments
                /\ fairness' = r.db.fairness
        /\ status' = respond(r.db.error # "", 400)
        /\ UNCHANGED <<personnel, posts, today, in_flight>>

(***************************************************************************)
(* POST /api/recalculate-fairness (app/main.py)                            *)
(***************************************************************************)
\* the recalculation without the delete of main.py 341: the replay adds to
\* the rows of the run before
delete_nothing(db) == db

\* main.py 341: db.query(FairnessTracking).delete()
delete_fairness(db) == [db EXCEPT !.fairness = <<>>]

\* main.py 347-349: the loop over db.query(Assignment).all()
RECURSIVE replay(_, _, _, _)
replay(db, rows, i, now) ==
    IF i > Len(rows) \/ db.error # "" THEN db
    ELSE replay(update_fairness_tracking(db, rows[i].person_id, rows[i].post_id, now),
                rows, i + 1, now)

\* main.py 339-359: the session after commit, or with the error that made
\* the handler roll back
recalculate_fairness(db, now) ==
    LET db1 == delete_fairness(db)
        db2 == replay(db1, db1.assignments, 1, now)
    IN  IF db2.error # "" THEN db2 ELSE commit(db2)

RecalculateFairness ==
    LET db == recalculate_fairness(SessionLocal, today)
    IN  /\ IF db.error # ""
           THEN UNCHANGED fairness
           ELSE fairness' = db.fairness
        /\ status' = respond(db.error # "", 400)
        /\ UNCHANGED <<personnel, posts, assignments, today, in_flight>>

(***************************************************************************)
(* Store failures.  A write of the session to the database (a flush, the   *)
(* DELETE of the recalculation, a commit) raises; the handlers are as      *)
(* above up to the write that fails.                                       *)
(***************************************************************************)
\* a session that keeps what it flushed before the failure
rollback_nothing(db, committed) ==
    [committed EXCEPT !.assignments = db.assignments, !.fairness = db.fairness]

\* db.rollback() (main.py 358) and db.close() (database.py 31) on a session
\* whose last commit left the store as committed: what was flushed since is
\* undone
rollback(db, committed) == committed

\* crud.py 436-464 where the flush of created row number fail_at raises:
\* the row stays pending
ingest_one_failing(st, c, duty_date, now, fail_at) ==
    IF /\ c[1] # 0
       /\ ~existing(st.db, c[1], c[2], duty_date)
       /\ st.db.error = ""
       /\ st.assignments_created + 1 = fail_at
    THEN [st EXCEPT !.db = [add_assignment(st.db,
                                AssignmentRow(c[1], c[2], duty_date, "06:00", "18:00"))
                            EXCEPT !.error = "OperationalError"]]
    ELSE ingest_one(st, c, duty_date, now)

RECURSIVE ingest_failing(_, _, _, _, _, _)
ingest_failing(st, t, k, duty_date, now, fail_at) ==
    IF k > Len(ChatMatches[t]) THEN st
    ELSE ingest_failing(
             ingest_one_failing(st, candidate_of(st.db, t, k), duty_date, now, fail_at),
             t, k + 1, duty_date, now, fail_at)

\* crud.py 300-470 where write number fail_at raises: the flushes of the
\* created rows are the first writes, db.commit() of line 469 is the last
parse_and_create_failing(db, t, duty_date, now, fail_at) ==
    LET st == ingest_failing([db |-> db, assignments_created |-> 0], t, 1,
                             duty_date_obj(duty_date, now), now, fail_at)
    IN  IF st.db.error # "" THEN st
        ELSE IF st.assignments_created + 1 = fail_at
             THEN [st EXCEPT !.db.error = "OperationalError"]
             ELSE [st EXCEPT !.db = commit(@)]

\* POST /api/import-chat when a write fails: main.py 265-269 answers 400,
\* and get_db closes the session
ImportChatFails(t, d, fail_at) ==
    LET r == parse_and_create_failing(SessionLocal, t, d, today, fail_at)
        kept == rollback(r.db, SessionLocal)
    IN  /\ r.db.error # ""
        /\ assignments' = kept.assignments
        /\ fairness' = kept.fairness
        /\ status' = respond(TRUE, 400)
        /\ UNCHANGED <<personnel, posts, today, in_flight>>

\* main.py 339-359 where write number fail_at raises: the DELETE of line 341
\* is the first write, db.commit() of line 351 the second
recalculate_fairness_failing(db, now, fail_at) ==
    IF fail_at = 1 THEN [db EXCEPT !.error = "OperationalError"]
    ELSE LET db1 == delete_fairness(db)
             db2 == replay(db1, db1.assignments, 1, now)
         IN  IF db2.error # "" THEN db2 ELSE [db2 EXCEPT !.error = "OperationalError"]

\* POST /api/recalculate-fairness when a write fails: main.py 357-359
RecalculateFairnessFails(fail_at) ==
    LET db == recalculate_fairness_failing(SessionLocal, today, fail_at)
        kept == rollback(db, SessionLocal)
    IN  /\ fairness' = kept.fairness
        /\ assignments' = kept.assignments
        /\ status' = respond(TRUE, 400)
        /\ UNCHANGED <<personnel, posts, today, in_flight>>

(***************************************************************************)
(* Requests that run at the same time.  The routes are plain functions,    *)
(* which FastAPI runs on threads, each with the session get_db gives it    *)
(* (database.py 27-31).  crud.create_assignment reads in lines 77-127      *)
(* (the queries of update_fairness_tracking see the committed rows) and    *)
(* writes in db.commit() of line 82, which sends the INSERT of the         *)
(* assignment and the INSERT or UPDATE of the tracking row; nothing in     *)
(* the code keeps another request from committing in between.  A tracking  *)
(* row is known by its id, which is its place in the table.                *)
(***************************************************************************)
MaxInFlight == 2    \* requests that have read and not yet committed

\* crud.py 76-80: the session before db.commit()
begin_create_assignment(db, person_id, post_id, duty_date, now) ==
    update_fairness_tracking(
        add_assignment(db, AssignmentRow(person_id, post_id, duty_date, "None", "None")),
        person_id, post_id, now)

\* crud.py 74-80 for a request of its own session: what the session holds
\* when it comes to db.commit(): the assignment to insert, the id of the
\* tracking row it read (0 when it found none and added one), and that row
\* as read and as changed
BeginCreateAssignment(person_id, post_id, duty_date) ==
    LET db == begin_create_assignment(SessionLocal, person_id, post_id, duty_date, today)
        hits == FairnessHits(SessionLocal, person_id)
        row == IF hits = {} THEN 0 ELSE SetMin(hits)
    IN  /\ Len(in_flight) < MaxInFlight
        /\ Len(assignments) + Len(in_flight) < MaxAssignments
        /\ IF db.error # ""
           THEN /\ status' = respond(TRUE, 500)
                /\ UNCHANGED in_flight
           ELSE /\ in_flight' = Append(in_flight,
                        [ assignment |-> db.new_assignments[1],
                          row |-> row,
                          before |-> IF row = 0 THEN NewFairness(person_id)
                                     ELSE fairness[row],
                          after |-> IF row = 0 THEN db.new_fairness[1]
                                    ELSE db.fairness[row] ])
                /\ UNCHANGED status
        /\ UNCHANGED <<personnel, posts, assignments, fairness, today>>

\* the UPDATE of a flush: the columns the session changed take the
\* session's values
updated_columns(stored, before, after) ==
    [c \in DOMAIN stored |-> IF before[c] # after[c] THEN after[c] ELSE stored[c]]

\* crud.py 82 for request i: INSERT of the assignment, INSERT of the
\* tracking row the session added or UPDATE of the row it read, COMMIT
FinishCreateAssignment(i) ==
    LET r == in_flight[i]
    IN  /\ i \in 1..Len(in_flight)
        /\ assignments' = Append(assignments, r.assignment)
        /\ fairness' = IF r.row = 0 THEN Append(fairness, r.after)
                       ELSE [fairness EXCEPT
                                ![r.row] = updated_columns(@, r.before, r.after)]
        /\ in_flight' = SubSeq(in_flight, 1, i - 1)
                            \o SubSeq(in_flight, i + 1, Len(in_flight))
        /\ status' = 200
        /\ UNCHANGED <<personnel, posts, today>>

(***************************************************************************)
(* crud.get_fairness_stats (GET /api/fairness)                             *)
(***************************************************************************)
\* crud.py 143-148: ten times the fairness score of a tracking row
fairness_score(tracking, now) ==
    10 * tracking.total_difficulty_points
        - (IF tracking.last_assignment_date # NoDate
           THEN now - tracking.last_assignment_date ELSE 0)

\* crud.py 150-158
TrackedStats(person, tracking, now) ==
    [ person_id |-> person.id,
      total_assignments |-> tracking.total_assignments,
      total_difficulty_points |-> tracking.total_difficulty_points,
      last_assignment_date |-> tracking.last_assignment_date,
      consecutive_standby |-> tracking.consecutive_standby,
      fairness_score |-> fairness_score(tracking, now) ]

\* crud.py 161-169
NewPersonStats(person) ==
    [ person_id |-> person.id, total_assignments |-> 0,
      total_difficulty_points |-> 0, last_assignment_date |-> NoDate,
      consecutive_standby |-> 0, fairness_score |-> 0 ]

\* crud.py 132-137 and 140-169: the rows of the outer join for one person,
\* one per tracking row of the person, or one without tracking
PersonStats(db, person, now) ==
    LET rows == SelectSeq(db.fairness, LAMBDA f : f.person_id = person.id)
    IN  IF rows = <<>> THEN <<NewPersonStats(person)>>
        ELSE [k \in 1..Len(rows) |-> TrackedStats(person, rows[k], now)]

RECURSIVE JoinStats(_, _, _)
JoinStats(db, i, now) ==
    IF i > Len(db.personnel) THEN <<>>
    ELSE (IF db.personnel[i].is_active
          THEN PersonStats(db, db.personnel[i], now) ELSE <<>>)
         \o JoinStats(db, i + 1, now)

\* sorted(stats, key=...): a stable sort, by insertion
InsertByScore(sorted, x) ==
    LET before == {i \in 1..Len(sorted) : sorted[i].fairness_score <= x.fairness_score}
        n == IF before = {} THEN 0 ELSE SetMax(before)
    IN  SubSeq(sorted, 1, n) \o <<x>> \o SubSeq(sorted, n + 1, Len(sorted))

RECURSIVE SortedByScore(_, _)
SortedByScore(stats, i) ==
    IF i = 0 THEN <<>>
    ELSE InsertByScore(SortedByScore(stats, i - 1), stats[i])

get_fairness_stats(db, now) ==
    SortedByScore(JoinStats(db, 1, now), Len(JoinStats(db, 1, now)))

(***************************************************************************)
(* crud.get_post_distribution_stats (GET /api/post-distribution)           *)
(***************************************************************************)
\* the joins without the filter on Personnel.is_active
joined_with_inactive(db) ==
    SelectSeq(db.assignments, LAMBDA a :
        /\ \E i \in 1..Len(db.personnel) : db.personnel[i].id = a.person_id
        /\ get_post(db.posts, a.post_id).id # 0
        /\ post_type_of(get_post(db.posts, a.post_id)).id # 0)

\* crud.py 178-180: the assignments the joins with personnel, posts and
\* post_types keep, with Personnel.is_active
joined_assignments(db) ==
    SelectSeq(db.assignments, LAMBDA a :
        /\ \E i \in 1..Len(db.personnel) :
               db.personnel[i].id = a.person_id /\ db.personnel[i].is_active
        /\ get_post(db.posts, a.post_id).id # 0
        /\ post_type_of(get_post(db.posts, a.post_id)).id # 0)

\* crud.py 187-206: one turn of the loop, on [person_post_stats,
\* post_type_totals]; person_key, which begins with the id, is the id here
count_assignment(acc, db, a) ==
    LET post_type == post_type_of(get_post(db.posts, a.post_id)).name
        mine == IF dict_has(acc.person_post_stats, a.person_id)
                THEN dict_get(acc.person_post_stats, a.person_id) ELSE <<>>
        count == IF dict_has(mine, post_type) THEN dict_get(mine, post_type) ELSE 0
        total == IF dict_has(acc.post_type_totals, post_type)
                 THEN dict_get(acc.post_type_totals, post_type) ELSE 0
    IN  [ person_post_stats |->
              dict_set(acc.person_post_stats, a.person_id,
                       dict_set(mine, post_type, count + 1)),
          post_type_totals |-> dict_set(acc.post_type_totals, post_type, total + 1) ]

RECURSIVE count_assignments(_, _, _, _)
count_assignments(acc, db, rows, i) ==
    IF i > Len(rows) THEN acc
    ELSE With(count_assignment(acc, db, rows[i]), LAMBDA next :
             count_assignments(next, db, rows, i + 1))

\* ten times round(count / total * 100, 1): the nearest tenth, a tie going
\* to the even tenth
round1(count, total) ==
    LET q == (1000 * count) \div total
        r == (1000 * count) % total
    IN  IF 2 * r > total \/ (2 * r = total /\ q % 2 = 1) THEN q + 1 ELSE q

\* sum(d.values())
RECURSIVE sum_values(_)
sum_values(d) == IF d = <<>> THEN 0 ELSE d[1].value + sum_values(Tail(d))

\* list.sort(key=..., reverse=True) on field: a stable sort, by insertion
InsertByCount(sorted, x, field) ==
    LET before == {i \in 1..Len(sorted) : sorted[i][field] >= x[field]}
        n == IF before = {} THEN 0 ELSE SetMax(before)
    IN  SubSeq(sorted, 1, n) \o <<x>> \o SubSeq(sorted, n + 1, Len(sorted))

RECURSIVE SortedByCount(_, _, _)
SortedByCount(rows, i, field) ==
    IF i = 0 THEN <<>>
    ELSE InsertByCount(SortedByCount(rows, i - 1, field), rows[i], field)

\* crud.py 210-231: the entry of results for one person
person_stats(person_id, counts, post_type_totals) ==
    LET total_assignments == sum_values(counts)
        post_assignments ==
            [k \in 1..Len(counts) |->
                [ post_type |-> counts[k].key,
                  count |-> counts[k].value,
                  percentage_of_total |->
                      IF dict_get(post_type_totals, counts[k].key) > 0
                      THEN round1(counts[k].value,
                                  dict_get(post_type_totals, counts[k].key))
                      ELSE 0,
                  percentage_of_person |->
                      IF total_assignments > 0
                      THEN round1(counts[k].value, total_assignments) ELSE 0 ]]
    IN  [ person_id |-> person_id,
          post_assignments |-> SortedByCount(post_assignments,
                                             Len(post_assignments), "count"),
          total_assignments |-> total_assignments ]

\* crud.py 175-241
get_post_distribution_stats(db) ==
    With(count_assignments([person_post_stats |-> <<>>, post_type_totals |-> <<>>],
                           db, joined_assignments(db), 1),
         LAMBDA acc :
             LET results ==
                     [k \in 1..Len(acc.person_post_stats) |->
                         person_stats(acc.person_post_stats[k].key,
                                      acc.person_post_stats[k].value,
                                      acc.post_type_totals)]
             IN  [ personnel_stats |->
                       SortedByCount(results, Len(results), "total_assignments"),
                   post_type_totals |-> acc.post_type_totals,
                   total_assignments |-> sum_values(acc.post_type_totals),
                   total_personnel |-> Len(results) ])

(***************************************************************************)
(* POST /api/setup-posts (app/main.py)                                     *)
(***************************************************************************)
\* main.py 293-302: post_data
post_data == <<
    [type |-> s_SOG, post |-> s_SOG],
    [type |-> s_CQ, post |-> s_CQ],
    [type |-> s_ECP, post |-> s_ECP1],
    [type |-> s_ECP, post |-> s_ECP2],
    [type |-> s_ECP, post |-> s_ECP3],
    [type |-> s_VCP, post |-> s_VCP],
    [type |-> s_ROVER, post |-> s_ROVER],
    [type |-> s_StandBy, post |-> s_StandBy] >>

\* main.py 306: db.query(PostType).filter(PostType.name == type_name).first()
post_type_named(type_name) ==
    LET hit == {i \in 1..Len(post_types) : post_types[i].name = type_name}
    IN  IF hit = {} THEN NoRow ELSE post_types[SetMin(hit)]

\* main.py 305-321: the posts after the loop has come to entry i; the rows
\* it adds are pending, and the query of line 308 sees the rows of db only
RECURSIVE setup_posts_from(_, _, _)
setup_posts_from(db, i, post_rows) ==
    IF i > Len(post_data) THEN post_rows
    ELSE LET post_type == post_type_named(post_data[i].type)
             missing == /\ post_type.id # 0
                        /\ find_post(db, post_type, post_data[i].post).id = 0
         IN  setup_posts_from(db, i + 1,
                 IF missing
                 THEN Append(post_rows, [id |-> Len(post_rows) + 1,
                                         name |-> post_data[i].post,
                                         post_type_id |-> post_type.id])
                 ELSE post_rows)

\* main.py 272-331; every post type of post_type_data is in post_types
setup_posts(db) == [db EXCEPT !.posts = setup_posts_from(db, 1, db.posts)]

SetupPosts ==
    /\ posts' = setup_posts(SessionLocal).posts
    /\ status' = 200
    /\ UNCHANGED <<personnel, assignments, fairness, today, in_flight>>

(***************************************************************************)
(* The derived views (GET /api/fairness, /api/post-distribution,           *)
(* /api/dashboard, /api/personnel/{person_id}/details).  A view queries    *)
(* the session and adds nothing to it; get_db closes the session when the  *)
(* response is made (database.py 27-31), which drops what was not          *)
(* committed.                                                              *)
(***************************************************************************)
\* db.close() in get_db: the store is what was committed
close(db, committed) == rollback(db, committed)

\* crud.get_assignments(db, limit=...): the number of rows listed
get_assignments(db, limit) ==
    IF Len(db.assignments) < limit THEN Len(db.assignments) ELSE limit

RECURSIVE sum_scores(_, _)
sum_scores(stats, power) ==
    IF stats = <<>> THEN 0
    ELSE (IF power = 2 THEN stats[1].fairness_score * stats[1].fairness_score
          ELSE stats[1].fairness_score)
         + sum_scores(Tail(stats), power)

\* crud.py 244-290.  The variance of the scores is the fraction
\* (n * sum of squares - square of the sum) / (100 * n * n) of the scores
\* kept times ten; every post is active (Post.is_active defaults to True
\* and no request changes it)
get_dashboard_stats(db, now) ==
    LET fairness_stats == get_fairness_stats(db, now)
        n == Len(fairness_stats)
    IN  [ total_personnel |->
              Cardinality({i \in 1..Len(db.personnel) : db.personnel[i].is_active}),
          active_assignments |->
              Cardinality({i \in 1..Len(db.assignments) :
                              db.assignments[i].duty_date >= now}),
          posts_covered |-> Len(db.posts),
          fairness_variance |->
              IF n > 0
              THEN [ num |-> n * sum_scores(fairness_stats, 2)
                             - sum_scores(fairness_stats, 1)
                               * sum_scores(fairness_stats, 1),
                     den |-> 100 * n * n ]
              ELSE [ num |-> 0, den |-> 1 ],
          recent_assignments |-> get_assignments(db, 5) ]

\* crud.py 477-583: None for a person that is not there; else the rows of
\* the person the joins with posts and post_types keep, and the tracking
\* rows of the person
get_personnel_details(db, person_id) ==
    IF \A i \in 1..Len(db.personnel) : db.personnel[i].id # person_id
    THEN [ found |-> FALSE ]
    ELSE LET rows == SelectSeq(db.assignments, LAMBDA a :
                         /\ a.person_id = person_id
                         /\ get_post(db.posts, a.post_id).id # 0
                         /\ post_type_of(get_post(db.posts, a.post_id)).id # 0)
         IN  [ found |-> TRUE,
               person_id |-> person_id,
               total_assignments |-> Len(rows),
               fairness_tracking |->
                   SelectSeq(db.fairness, LAMBDA f : f.person_id = person_id) ]

\* a GET route: the view is computed on the session db, the session is
\* closed, and the response has status code
Viewed(db, code) ==
    LET kept == close(db, SessionLocal)
    IN  /\ personnel' = kept.personnel
        /\ posts' = kept.posts
        /\ assignments' = kept.assignments
        /\ fairness' = kept.fairness
        /\ status' = code
        /\ UNCHANGED <<today, in_flight>>

\* GET /api/fairness, main.py 231-244
GetFairnessStats ==
    /\ Len(get_fairness_stats(SessionLocal, today)) >= 0
    /\ Viewed(SessionLocal, 200)

\* GET /api/post-distribution, main.py 247-250
GetPostDistributionStats ==
    /\ get_post_distribution_stats(SessionLocal).total_personnel >= 0
    /\ Viewed(SessionLocal, 200)

\* GET /api/dashboard, main.py 362-365
GetDashboardStats ==
    /\ get_dashboard_stats(SessionLocal, today).total_personnel >= 0
    /\ Viewed(SessionLocal, 200)

\* GET /api/personnel/{person_id}/details, main.py 198-204: 404 when
\* crud.get_personnel_details returns None
GetPersonnelDetails(person_id) ==
    Viewed(SessionLocal,
           IF get_personnel_details(SessionLocal, person_id).found
           THEN 200 ELSE 404)

(***************************************************************************)
(* The clock.                                                              *)
(***************************************************************************)
Tick ==
    /\ today + TickDays <= MaxTicks * TickDays
    /\ today' = today + TickDays
    /\ UNCHANGED <<personnel, posts, assignments, fairness, status, in_flight>>

Init ==
    /\ personnel = SeedPersonnel
    /\ posts = SeedPosts
    /\ assignments = <<>>
    /\ fairness = <<>>
    /\ today = 0
    /\ status = 200
    /\ in_flight = <<>>

Next ==
    \/ \E p \in PersonIds, q \in PostIds, d \in DutyDays : CreateAssignment(p, q, d)
    \/ CreatePost(s_Annex, 99)
    \/ CreatePersonnel(NewPersonnel.rank, NewPersonnel.name, NewPersonnel.is_active)
    \/ \E t \in 1..Len(ChatTexts), d \in 1..Len(DutyDateStrings) : ImportChat(t, d)
    \/ RecalculateFairness
    \/ Tick

Spec == Init /\ [][Next]_vars

\* the requests that create assignments, without the recalculation
NextIngest ==
    \/ \E p \in PersonIds, q \in PostIds, d \in DutyDays : CreateAssignment(p, q, d)
    \/ CreatePost(s_Annex, 99)
    \/ CreatePersonnel(NewPersonnel.rank, NewPersonnel.name, NewPersonnel.is_active)
    \/ \E t \in 1..Len(ChatTexts), d \in 1..Len(DutyDateStrings) : ImportChat(t, d)
    \/ Tick

SpecIngest == Init /\ [][NextIngest]_vars

\* the post tables a database starts with: the posts of initialize_data, or
\* the post CQ alone (initialize_data returns at main.py 42-44 when
\* personnel exist; POST /api/setup-posts is there to add what misses)
PostTables == {SeedPosts, <<[id |-> 1, name |-> s_CQ, post_type_id |-> 2]>>}

InitChat ==
    /\ personnel = SeedPersonnel
    /\ posts \in PostTables
    /\ assignments = <<>>
    /\ fairness = <<>>
    /\ today = 0
    /\ status = 200
    /\ in_flight = <<>>

\* the chat import on its own, with every chat text, next to the requests
\* that change the roster and the posts it reads
NextChat ==
    \/ \E t \in 1..Len(AllChatTexts), d \in 1..Len(DutyDateStrings) : ImportChat(t, d)
    \/ CreatePersonnel(OtherPersonnel.rank, OtherPersonnel.name, OtherPersonnel.is_active)
    \/ Cardinality({i \in 1..Len(posts) : posts[i].name = s_sog}) < MaxNewPosts
           /\ CreatePost(s_sog, 1)
    \/ SetupPosts

SpecChat == InitChat /\ [][NextChat]_vars

\* the chat import of every chat text on the seeded store, on one day or
\* another
NextImports ==
    \/ \E t \in 1..Len(AllChatTexts), d \in 1..Len(DutyDateStrings) : ImportChat(t, d)
    \/ Tick

SpecImports == Init /\ [][NextImports]_vars

\* the writes of a handler, counted from the first
FailingWrites == 1..(MaxAssignments + 1)

\* the requests that write assignments and tracking rows, each also with a
\* store failure at one of its writes
NextFaults ==
    \/ \E p \in PersonIds, q \in PostIds, d \in DutyDays : CreateAssignment(p, q, d)
    \/ \E t \in 1..Len(ChatTexts), d \in 1..Len(DutyDateStrings) : ImportChat(t, d)
    \/ RecalculateFairness
    \/ \E t \in 1..Len(ChatTexts), d \in 1..Len(DutyDateStrings), w \in FailingWrites :
           ImportChatFails(t, d, w)
    \/ \E w \in 1..2 : RecalculateFairnessFails(w)
    \/ Tick

SpecFaults == Init /\ [][NextFaults]_vars

\* create_assignment requests that run at the same time
NextConcurrent ==
    \/ \E p \in PersonIds, q \in PostIds, d \in DutyDays : BeginCreateAssignment(p, q, d)
    \/ \E i \in 1..MaxInFlight : FinishCreateAssignment(i)
    \/ Tick

SpecConcurrent == Init /\ [][NextConcurrent]_vars

\* the requests that decide what the joins of the statistics keep:
\* assignments of people who are active, who are not, or who do not exist,
\* on posts with and without a post type
StatsPersonIds == 1..(Len(SeedPersonnel) + 1)

NextStats ==
    \/ \E p \in StatsPersonIds, q \in PostIds, d \in DutyDays : CreateAssignment(p, q, d)
    \/ \E n \in PeopleCreated : CreatePersonnel(n.rank, n.name, n.is_active)
    \/ CreatePost(s_Annex, 99)

SpecStats == Init /\ [][NextStats]_vars

\* the requests that write personnel, assignments and tracking rows, next
\* to the derived views
NextViews ==
    \/ \E p \in PersonIds, q \in PostIds, d \in DutyDays : CreateAssignment(p, q, d)
    \/ CreatePersonnel(NewPersonnel.rank, NewPersonnel.name, NewPersonnel.is_active)
    \/ \E t \in 1..Len(ChatTexts), d \in 1..Len(DutyDateStrings) : ImportChat(t, d)
    \/ RecalculateFairness
    \/ GetFairnessStats
    \/ GetPostDistributionStats
    \/ GetDashboardStats
    \/ \E p \in StatsPersonIds : GetPersonnelDetails(p)
    \/ Tick

SpecViews == Init /\ [][NextViews]_vars

(***************************************************************************)
(* The claims.                                                             *)
(***************************************************************************)
PersonRows(person_id) ==
    SelectSeq(assignments, LAMBDA a : a.person_id = person_id)

RecordsOf(rows, person_id) ==
    SelectSeq(rows, LAMBDA f : f.person_id = person_id)

PersonRecords(person_id) == RecordsOf(fairness, person_id)

\* the ids assignments and tracking rows name
PersonsNamed ==
    {assignments[i].person_id : i \in 1..Len(assignments)}
        \cup {fairness[i].person_id : i \in 1..Len(fairness)}

\* the days the clock can show
Clocks == {k * TickDays : k \in 0..MaxTicks}

\* the post a row names cannot be resolved to a post type: no such post, or
\* a post whose post_type_id names no post type
Unresolved(post_id) ==
    \/ \A i \in 1..Len(posts) : posts[i].id # post_id
    \/ \E i \in 1..Len(posts) :
           /\ posts[i].id = post_id
           /\ \A k \in 1..Len(post_types) : post_types[k].id # posts[i].post_type_id

\* the post type of a post that resolves
TypeOfPost(post_id) ==
    LET post == CHOOSE q \in {posts[i] : i \in 1..Len(posts)} : q.id = post_id
    IN  CHOOSE pt \in {post_types[k] : k \in 1..Len(post_types)} :
            pt.id = post.post_type_id

\* the import of chat text t with date string d on the store as it is
FirstImport(t, d) ==
    parse_and_create_chat_assignments(SessionLocal, t, d, today)

\* the second import, at each clock of the set nows, returns 0 and leaves
\* the assignment rows as the first left them
SecondImportIsEmpty(t, d, nows) ==
    LET first == FirstImport(t, d)
    IN  \A now \in nows :
            LET second == parse_and_create_chat_assignments(first.db, t, d, now)
            IN  /\ second.assignments_created = 0
                /\ second.db.assignments = first.db.assignments

\* C1 (as stated): on every store, a second import of the same chat text
\* and duty date string that follows the first with no other change of the
\* store in between returns 0 and leaves the assignment rows as they are,
\* whenever it runs.
C1_SecondImportCreatesNothing ==
    \A t \in 1..Len(ChatTexts), d \in 1..Len(DutyDateStrings) :
        SecondImportIsEmpty(t, d, {now \in Clocks : now >= today})

\* C1 (amended): the same, for a duty date string that is an ISO date, and
\* for any other string when the second import runs on the day of the first.
C1_SecondImportCreatesNothingSameDate ==
    \A t \in 1..Len(ChatTexts), d \in 1..Len(DutyDateStrings) :
        SecondImportIsEmpty(t, d,
            {now \in Clocks : now >= today /\ (DutyDatesParsed[d].ok \/ now = today)})

\* an import has created rows, next to a row typed in, and the clock has
\* moved on: the same import run again finds its rows
C1_Witness ==
    /\ status = 200
    /\ today > 0
    /\ \E i, j \in 1..Len(assignments) : /\ assignments[i].start_time = "06:00"
                                          /\ assignments[j].start_time = "None"
    /\ \E t \in 1..Len(ChatTexts), d \in 1..Len(DutyDateStrings) :
           /\ FirstImport(t, d).assignments_created = 0
           /\ \E k \in 1..Len(ChatMatches[t]) : candidate_of(SessionLocal, t, k)[1] # 0

\* the candidates of chat text t on the store as it is: the (person id,
\* post id) of the matches that resolve
Candidates(t) ==
    LET all == [k \in 1..Len(ChatMatches[t]) |-> candidate_of(SessionLocal, t, k)]
    IN  SelectSeq(all, LAMBDA c : c[1] # 0)

\* C2: the chat text "SOG: SGT Lastre", blank line, "CQ: SPC Miller" has
\* exactly two candidates, SGT Lastre on post SOG and SPC Miller on post CQ,
\* and its import into a store without assignments creates these two rows.
C2_SameLinePairsAreCandidates ==
    /\ ChatTexts[1] = ChatSameLine
    /\ Candidates(1) = << <<1, 1>>, <<2, 2>> >>
    /\ \A d \in 1..Len(DutyDateStrings) :
           LET r == parse_and_create_chat_assignments(SessionLocal, 1, d, today)
           IN  assignments = <<>> =>
                   /\ r.assignments_created = 2
                   /\ [i \in 1..Len(r.db.assignments) |->
                          <<r.db.assignments[i].person_id, r.db.assignments[i].post_id>>]
                        = << <<1, 1>>, <<2, 2>> >>

\* C3: every person has at most one fairness_tracking row, in every state
\* the requests reach.
C3_OneRecordPerPerson ==
    \A i, j \in 1..Len(fairness) :
        fairness[i].person_id = fairness[j].person_id => i = j

RECURSIVE SumWeights(_, _)
SumWeights(rows, unresolved_weight) ==
    IF rows = <<>> THEN 0
    ELSE SumWeights(Tail(rows), unresolved_weight)
            + (IF Unresolved(Head(rows).post_id) THEN unresolved_weight
               ELSE TypeOfPost(Head(rows).post_id).difficulty_weight)

TotalsMatchRows(unresolved_weight) ==
    \A p \in PersonsNamed :
        IF PersonRecords(p) = <<>> THEN PersonRows(p) = <<>>
        ELSE \A k \in 1..Len(PersonRecords(p)) :
                /\ PersonRecords(p)[k].total_assignments = Len(PersonRows(p))
                /\ PersonRecords(p)[k].total_difficulty_points
                       = SumWeights(PersonRows(p), unresolved_weight)

\* C4 (as stated): after create_assignment and chat imports from the empty
\* store, a tracking row counts the assignment rows of its person and holds
\* the sum of the difficulty weights of the post types of those rows' posts
\* (a row whose post has no post type adds nothing to that sum); a person
\* without tracking row has no assignment rows.
C4_TotalsAreCountAndWeightSum == TotalsMatchRows(0)

\* C4 (amended): the same, a row whose post cannot be resolved to a post
\* type counting with weight 1.
C4_TotalsAreCountAndWeightSumFailSoft == TotalsMatchRows(1)

\* a person with one row typed in by create_assignment and one imported
C4_Witness ==
    \E p \in PersonsNamed :
        /\ Len(PersonRows(p)) = 2
        /\ \E i, j \in 1..2 : /\ PersonRows(p)[i].start_time = "None"
                              /\ PersonRows(p)[j].start_time = "06:00"
        /\ Len(PersonRecords(p)) = 1
        /\ PersonRecords(p)[1].total_assignments = 2

\* C5: create_assignment for a person without tracking row, on a post that
\* has a post type, leaves exactly one tracking row of the person, with
\* total_assignments 1, total_difficulty_points the weight of the post type,
\* and consecutive_standby 1 when the post type is named "Stand by", else 0.
C5_FirstRecord ==
    [][\A p \in PersonIds, q \in PostIds, d \in DutyDays :
          (/\ PersonRecords(p) = <<>> /\ ~Unresolved(q)
           /\ CreateAssignment(p, q, d)) =>
              /\ status' = 200
              /\ Len(RecordsOf(fairness', p)) = 1
              /\ RecordsOf(fairness', p)[1].total_assignments = 1
              /\ RecordsOf(fairness', p)[1].total_difficulty_points
                     = TypeOfPost(q).difficulty_weight
              /\ RecordsOf(fairness', p)[1].consecutive_standby
                     = (IF TypeOfPost(q).name = s_StandBy THEN 1 ELSE 0)]_vars

\* both persons have their first row, one on Stand by and one on SOG
C5_Witness ==
    /\ status = 200
    /\ \A i \in 1..Len(assignments) : assignments[i].start_time = "None"
    /\ \E i, j \in 1..Len(fairness) :
           /\ fairness[i].total_assignments = 1
           /\ fairness[i].consecutive_standby = 1
           /\ fairness[i].total_difficulty_points = 1
           /\ fairness[j].total_assignments = 1
           /\ fairness[j].consecutive_standby = 0
           /\ fairness[j].total_difficulty_points = 5

\* the trailing run of Stand by rows, a row whose post cannot be resolved
\* leaving the run as it is
RECURSIVE TrailingStandby(_)
TrailingStandby(rows) ==
    IF rows = <<>> THEN 0
    ELSE LET front == SubSeq(rows, 1, Len(rows) - 1)
             row == rows[Len(rows)]
         IN  IF Unresolved(row.post_id) THEN TrailingStandby(front)
             ELSE IF TypeOfPost(row.post_id).name = s_StandBy
                  THEN 1 + TrailingStandby(front)
                  ELSE 0

\* C6: consecutive_standby of a tracking row is the length of the trailing
\* run of Stand by assignments of its person, in the order record() was
\* applied to them (the order of the assignment rows).
C6_StreakIsTrailingStandbyRun ==
    \A i \in 1..Len(fairness) :
        fairness[i].consecutive_standby
            = TrailingStandby(PersonRows(fairness[i].person_id))

\* the tracking rows without the date
Snapshot(rows) ==
    [i \in 1..Len(rows) |->
        [ person_id |-> rows[i].person_id,
          total_assignments |-> rows[i].total_assignments,
          total_difficulty_points |-> rows[i].total_difficulty_points,
          consecutive_standby |-> rows[i].consecutive_standby ]]

\* C7: a recalculation run on the store a recalculation has left, with no
\* other request in between and whenever it runs, leaves the tracking rows
\* with the person_id, totals, points and streak they had; it fails exactly
\* when the first did, the store then being left as it was.
C7_RecalculationIdempotent ==
    [][RecalculateFairness =>
          \A now \in Clocks :
              now >= today' =>
                  LET again == recalculate_fairness(
                                   Session(personnel', posts', assignments', fairness'), now)
                  IN  IF again.error # "" THEN status' = 400
                      ELSE /\ status' = 200
                           /\ Snapshot(again.fairness) = Snapshot(fairness')]_vars

\* a recalculation has rebuilt the tracking of a person with two assignment
\* rows (two tracking rows of one person are left by no other request)
C7_Witness ==
    /\ status = 200
    /\ \E i, j \in 1..Len(fairness) :
           i # j /\ fairness[i].person_id = fairness[j].person_id

FairnessStats == get_fairness_stats(SessionLocal, today)

\* C8: in the list get_fairness_stats returns, a person without tracking
\* (score 0.0) has a score at most that of every person with at least one
\* assignment, whatever the points and the days since the last assignment
\* of that person are.
C8_UnassignedRanksFirst ==
    \A i, j \in 1..Len(FairnessStats) :
        (FairnessStats[i].total_assignments = 0 /\ FairnessStats[j].total_assignments >= 1)
            => FairnessStats[i].fairness_score <= FairnessStats[j].fairness_score

\* C9: the list get_fairness_stats returns holds every active person exactly
\* once and no inactive person, in order of non-decreasing score.
C9_EveryActivePersonOnceSorted ==
    /\ \A k \in 1..Len(personnel) :
           Cardinality({i \in 1..Len(FairnessStats) :
                           FairnessStats[i].person_id = personnel[k].id})
               = (IF personnel[k].is_active THEN 1 ELSE 0)
    /\ \A i \in 1..Len(FairnessStats) : FairnessStats[i].person_id \in 1..Len(personnel)
    /\ \A i, j \in 1..Len(FairnessStats) :
           i < j => FairnessStats[i].fairness_score <= FairnessStats[j].fairness_score

\* C10: create_assignment on a post id that matches no post, or on a post
\* without post type, does not raise: the tracking row of the person (a new
\* one when there is none) has total_assignments one more, points one more,
\* and the streak it had.
C10_RecordNeverRaises ==
    [][\A p \in PersonIds, q \in PostIds, d \in DutyDays :
          (Unresolved(q) /\ CreateAssignment(p, q, d)) =>
              LET before == IF PersonRecords(p) = <<>> THEN NewFairness(p)
                            ELSE PersonRecords(p)[1]
              IN  /\ status' = 200
                  /\ RecordsOf(fairness', p) # <<>>
                  /\ RecordsOf(fairness', p)[1].total_assignments
                         = before.total_assignments + 1
                  /\ RecordsOf(fairness', p)[1].total_difficulty_points
                         = before.total_difficulty_points + 1
                  /\ RecordsOf(fairness', p)[1].consecutive_standby
                         = before.consecutive_standby]_vars

\* the rows of assignments_after that were not in assignments
NewRows(assignments_after) ==
    SubSeq(assignments_after, Len(assignments) + 1, Len(assignments_after))

\* row is the imported assignment of candidate c on day duty_date
IsRowOf(row, c, duty_date) ==
    /\ row.person_id = c[1]
    /\ row.post_id = c[2]
    /\ row.duty_date = duty_date
    /\ row.start_time = "06:00"

PostOfSOG == find_post(SessionLocal, get_post_type(s_SOG), s_SOG)

\* the matches of "SOG:", pre + " SGT Lastre", "SPC Miller" for each
\* decorative prefix pre
DecoratedMatches ==
    [pre \in DecorativePrefixes |->
        name_matches(<<"S", "O", "G", ":", "\n">> \o pre \o <<" ">> \o s_SGT
                         \o <<" ">> \o s_Lastre \o <<"\n">> \o s_SPC \o <<" ">>
                         \o s_Miller)]

\* C12: in the import of "SOG:", "<van> SGT Lastre", "OCP SGT Lastre",
\* "SPC Miller" the two decorated lines give no candidate and leave section
\* SOG in force: the scan has the one match (SOG, SPC, Miller), as it has
\* with a line of each of the six prefixes, no row is added for SGT Lastre,
\* and the row of SPC Miller on the post of SOG is added where the store has
\* that post and not yet that row.
C12_DecoratedLineKeepsSection ==
    \A d \in 1..Len(DutyDateStrings) :
        LET new == NewRows(FirstImport(4, d).db.assignments)
            day == duty_date_obj(d, today)
        IN  /\ AllChatTexts[4] = ChatDecorated
            /\ ChatMatches[4] =
                   <<[section |-> "SOG", rank |-> s_SPC, last_name |-> s_Miller]>>
            /\ \A pre \in DecorativePrefixes :
                   DecoratedMatches[pre] = ChatMatches[4]
            /\ \A i \in 1..Len(new) : IsRowOf(new[i], <<2, PostOfSOG.id>>, day)
            /\ (PostOfSOG.id # 0 /\ ~existing(SessionLocal, 2, PostOfSOG.id, day))
                   => Len(new) = 1

\* the import of the decorated text has made the row of SPC Miller on post
\* SOG and none of SGT Lastre
C12_Witness ==
    /\ status = 200
    /\ PostOfSOG.id # 0
    /\ \E i \in 1..Len(assignments) :
           IsRowOf(assignments[i], <<2, PostOfSOG.id>>, assignments[i].duty_date)
    /\ \A i \in 1..Len(assignments) : assignments[i].person_id # 1

\* C13: no two assignment rows have the same person, post and duty date, in
\* every state that imports reach from a store without assignments, whatever
\* the chat texts (one names a person twice in a section and repeats the
\* section), the date strings and the days of the imports.
C13_NoDuplicateAssignment ==
    \A i, j \in 1..Len(assignments) :
        ( /\ assignments[i].person_id = assignments[j].person_id
          /\ assignments[i].post_id = assignments[j].post_id
          /\ assignments[i].duty_date = assignments[j].duty_date ) => i = j

\* SGT Lastre has one row on post SOG, and the import of
\* "SOG:\nSGT Lastre SGT Lastre\nSOG:\nSGT Lastre", which has three matches
\* that resolve to that row, adds nothing to it
C13_Witness ==
    /\ status = 200
    /\ AllChatTexts[5] = ChatRepeated
    /\ Len(Candidates(5)) = 3
    /\ Len(assignments) = 1
    /\ IsRowOf(assignments[1], Candidates(5)[1], 0)
    /\ parse_and_create_chat_assignments(SessionLocal, 5, 1, today).assignments_created = 0

\* the ids of the active personnel
ActiveIds == {personnel[i].id : i \in {k \in 1..Len(personnel) : personnel[k].is_active}}

\* the assignment rows of the people of ids on posts of post type type_name
RowsOfType(ids, type_name) ==
    {i \in 1..Len(assignments) :
        /\ assignments[i].person_id \in ids
        /\ ~Unresolved(assignments[i].post_id)
        /\ TypeOfPost(assignments[i].post_id).name = type_name}

PostTypeNames == {post_types[k].name : k \in 1..Len(post_types)}

\* tenths is x rounded to one decimal, for x = 100 * count / total
IsRoundedPercentage(tenths, count, total) ==
    /\ 2 * (tenths * total - 1000 * count) <= total
    /\ 2 * (1000 * count - tenths * total) <= total

DistributionStats == get_post_distribution_stats(SessionLocal)

\* the counts of post type type_name over the entries of personnel_stats
RECURSIVE ListedCount(_, _, _)
ListedCount(listed, k, type_name) ==
    IF k = 0 THEN 0
    ELSE ListedCount(listed, k - 1, type_name)
            + sum_values(SelectSeq(
                  [j \in 1..Len(listed[k].post_assignments) |->
                      [key |-> listed[k].post_assignments[j].post_type,
                       value |-> listed[k].post_assignments[j].count]],
                  LAMBDA e : e.key = type_name))

\* the largest count the rounding is compared for
MaxCount == 10

\* C14: in the statistics of every state, each listed person is active and
\* each of their entries has the count of their assignment rows of that post
\* type and, as percentage_of_total, 100 * count / (rows of that post type of
\* all active personnel) rounded to one decimal; the counts of a post type
\* over the listed persons add up to post_type_totals of the type, which is
\* the number of those rows; and the rounding gives the nearest tenth for
\* all counts up to MaxCount, 30.0 for 3 of 10.
C14_PercentageOfTotal ==
    LET listed == DistributionStats.personnel_stats
        totals == DistributionStats.post_type_totals
    IN  /\ \A k \in 1..Len(listed) :
               /\ listed[k].person_id \in ActiveIds
               /\ \A j \in 1..Len(listed[k].post_assignments) :
                      LET e == listed[k].post_assignments[j]
                          total == Cardinality(RowsOfType(ActiveIds, e.post_type))
                      IN  /\ e.count = Cardinality(
                                 RowsOfType({listed[k].person_id}, e.post_type))
                          /\ total > 0
                          /\ IsRoundedPercentage(e.percentage_of_total, e.count, total)
        /\ \A type_name \in PostTypeNames :
               LET total == Cardinality(RowsOfType(ActiveIds, type_name))
               IN  /\ ListedCount(listed, Len(listed), type_name) = total
                   /\ IF total = 0 THEN ~dict_has(totals, type_name)
                      ELSE dict_has(totals, type_name)
                               /\ dict_get(totals, type_name) = total
        /\ \A total \in 1..MaxCount, count \in 0..MaxCount :
               count <= total =>
                   IsRoundedPercentage(round1(count, total), count, total)
        /\ round1(3, 10) = 300

\* two listed persons with one assignment each of one post type, 50.0 each
C14_Witness ==
    LET listed == DistributionStats.personnel_stats
    IN  /\ Len(listed) = 2
        /\ \A k \in 1..2 :
               /\ Len(listed[k].post_assignments) = 1
               /\ listed[k].post_assignments[1].percentage_of_total = 500
        /\ listed[1].post_assignments[1].post_type
               = listed[2].post_assignments[1].post_type

\* C15: a store failure at any write of a chat import or of the
\* recalculation is answered with an error (400), and the assignments and
\* the tracking rows are afterwards what they were before the request: no
\* row of the batch is persisted, no tracking row changed or deleted.
C15_FailedWriteLeavesStore ==
    [][( \/ \E t \in 1..Len(ChatTexts), d \in 1..Len(DutyDateStrings),
               w \in FailingWrites : ImportChatFails(t, d, w)
         \/ \E w \in 1..2 : RecalculateFairnessFails(w) )
          => /\ status' = 400
             /\ assignments' = assignments
             /\ fairness' = fairness]_vars

\* a request has failed, and the store has the rows that were committed
\* before it: a tracking row, which a recalculation failing at its commit
\* has deleted in its session, and one assignment, after which an import
\* failing at its second write has flushed a row
C15_Witness ==
    /\ status = 400
    /\ Len(assignments) = 1
    /\ Len(fairness) = 1
    /\ recalculate_fairness_failing(SessionLocal, today, 2).fairness # fairness
    /\ \E t \in 1..Len(ChatTexts), d \in 1..Len(DutyDateStrings) :
           LET r == parse_and_create_failing(SessionLocal, t, d, today, 2)
           IN  r.db.error # "" /\ Len(r.db.assignments) > Len(assignments)

\* C16: with create_assignment requests running at the same time, no
\* update of a tracking row is lost: once every request has committed, each
\* tracking row counts the assignment rows of its person, and a person
\* without tracking row has none.
C16_NoLostUpdate ==
    in_flight = <<>> =>
        \A p \in PersonsNamed :
            IF PersonRecords(p) = <<>> THEN PersonRows(p) = <<>>
            ELSE \A k \in 1..Len(PersonRecords(p)) :
                    PersonRecords(p)[k].total_assignments = Len(PersonRows(p))

\* record() applied to assignment rows i.. one after the other, each on the
\* tracking rows the one before has left
RECURSIVE RecordedInTurn(_, _, _)
RecordedInTurn(rows, i, tracking) ==
    IF i > Len(rows) THEN tracking
    ELSE RecordedInTurn(rows, i + 1,
             flush(update_fairness_tracking(
                       Session(personnel, posts, assignments, tracking),
                       rows[i].person_id, rows[i].post_id, today)).fairness)

\* C17: a recalculation that answers 200 leaves the tracking rows that
\* record() leaves when it is applied, from no tracking rows, to every
\* assignment row in store order; so every person with k >= 1 assignment
\* rows has a tracking row with total_assignments = k.
C17_RecalculationIsReplay ==
    [][(RecalculateFairness /\ status' = 200) =>
           /\ fairness' = RecordedInTurn(assignments, 1, <<>>)
           /\ \A p \in {assignments[i].person_id : i \in 1..Len(assignments)} :
                  \E k \in 1..Len(fairness') :
                      /\ fairness'[k].person_id = p
                      /\ fairness'[k].total_assignments = Len(PersonRows(p))]_vars

\* the active people whose full name is "rank last_name", letter case aside
ExactFullName(rank, last_name) ==
    {i \in 1..Len(personnel) :
        /\ personnel[i].is_active
        /\ upper(full_name(personnel[i])) = upper(rank \o <<" ">> \o last_name)}

\* the active people whose name is last_name, letter case aside
ExactBareName(last_name) ==
    {i \in 1..Len(personnel) :
        personnel[i].is_active /\ upper(personnel[i].name) = upper(last_name)}

\* the people the first rule that applies to the pair names: the exact full
\* name, then the exact bare name; empty where only containment is left
PreferredPeople(rank, last_name) ==
    IF ExactFullName(rank, last_name) # {} THEN ExactFullName(rank, last_name)
    ELSE ExactBareName(last_name)

\* C18: an import, in any state, resolves each pair by the first rule that
\* applies, exact full name before exact bare name before containment:
\* where a pair has an exact full-name or bare-name match and its section's
\* post is in the store, the pair resolves to a person of that match, and
\* the assignment of such a person on that post and day is there after the
\* import.
C18_ExactMatchBeforeFuzzy ==
    \A t \in 1..Len(AllChatTexts), d \in 1..Len(DutyDateStrings) :
        \A k \in 1..Len(ChatMatches[t]) :
            LET m == ChatMatches[t][k]
                c == candidate_of(SessionLocal, t, k)
                who == PreferredPeople(m.rank, m.last_name)
                after == FirstImport(t, d).db.assignments
            IN  (who # {} /\ c[2] # 0) =>
                    /\ c[1] \in who
                    /\ \E i \in 1..Len(after) :
                           /\ after[i].person_id \in who
                           /\ after[i].post_id = c[2]
                           /\ after[i].duty_date = duty_date_obj(d, today)

\* the matches of marker + " SGT Lastre", "SPC Miller" for each of the eight
\* markers
MarkerLineMatches ==
    [i \in 1..Len(Markers) |->
        name_matches(Markers[i].marker \o <<" ">> \o s_SGT \o <<" ">> \o s_Lastre
                         \o <<"\n">> \o s_SPC \o <<" ">> \o s_Miller)]

PostsOfSection(section) ==
    {i \in 1..Len(posts) :
        /\ upper(posts[i].name) = upper(post_mappings(section).post)
        /\ post_type_of(posts[i]).id # 0
        /\ upper(post_type_of(posts[i]).name) = upper(post_mappings(section).type)}

\* C20: the post of a section is found whatever the letter case of the
\* stored post type name and post name: in every import, a pair that
\* resolves to a person and whose section has such a post in the store has
\* the assignment of that person on such a post and day afterwards.
C20_PostMatchIgnoresCase ==
    \A t \in 1..Len(AllChatTexts), d \in 1..Len(DutyDateStrings) :
        \A k \in 1..Len(ChatMatches[t]) :
            LET person == ChatPeople[personnel][t][k]
                found == PostsOfSection(ChatMatches[t][k].section)
                after == FirstImport(t, d).db.assignments
            IN  (person # 0 /\ found # {}) =>
                    \E i \in 1..Len(after) :
                        /\ after[i].person_id = person
                        /\ after[i].post_id \in {posts[j].id : j \in found}
                        /\ after[i].duty_date = duty_date_obj(d, today)

\* the sum of total_assignments over the tracking rows
RECURSIVE SumOfTotals(_)
SumOfTotals(rows) ==
    IF rows = <<>> THEN 0
    ELSE rows[1].total_assignments + SumOfTotals(Tail(rows))

\* C21: the count an import returns, of any chat text with any date string
\* in any state, is the number of assignment rows the import added and is
\* the increase of the sum of total_assignments over all tracking rows; the
\* rows that were there stay as they were, and every row added has
\* start_time "06:00", end_time "18:00" and status "assigned".
C21_CountIsRowsAndTotals ==
    \A t \in 1..Len(AllChatTexts), d \in 1..Len(DutyDateStrings) :
        LET r == FirstImport(t, d)
            new == NewRows(r.db.assignments)
        IN  r.db.error = "" =>
                /\ Len(r.db.assignments) >= Len(assignments)
                /\ SubSeq(r.db.assignments, 1, Len(assignments)) = assignments
                /\ r.assignments_created = Len(new)
                /\ SumOfTotals(r.db.fairness) - SumOfTotals(fairness)
                       = r.assignments_created
                /\ \A i \in 1..Len(new) :
                       /\ new[i].start_time = "06:00"
                       /\ new[i].end_time = "18:00"
                       /\ new[i].status = "assigned"

\* an import has added a row, a person has a tracking row, and the import
\* of a chat text on the store as it is now creates a row for one pair and
\* skips another whose row is there
C21_Witness ==
    /\ status = 200
    /\ \E i \in 1..Len(assignments) : assignments[i].start_time = "06:00"
    /\ SumOfTotals(fairness) >= 1
    /\ \E t \in 1..Len(AllChatTexts), d \in 1..Len(DutyDateStrings) :
           LET r == FirstImport(t, d)
           IN  /\ r.db.error = ""
               /\ r.assignments_created >= 1
               /\ r.assignments_created < Len(Candidates(t))
               /\ SumOfTotals(r.db.fairness)
                      = SumOfTotals(fairness) + r.assignments_created

\* every pair of chat text t is skipped by an import with date string d on
\* the store as it is: the pair resolves to no person or to no post, or its
\* assignment is there
SkipsEvery(t, d) ==
    \A k \in 1..Len(ChatMatches[t]) :
        LET c == candidate_of(SessionLocal, t, k)
        IN  \/ c[1] = 0
            \/ \E i \in 1..Len(assignments) :
                   /\ assignments[i].person_id = c[1]
                   /\ assignments[i].post_id = c[2]
                   /\ assignments[i].duty_date = duty_date_obj(d, today)

\* an import in which every pair is skipped returns 0 and leaves the
\* assignments and the tracking rows as they are
SkippedImportChangesNothing ==
    \A t \in 1..Len(AllChatTexts), d \in 1..Len(DutyDateStrings) :
        SkipsEvery(t, d) =>
            LET r == FirstImport(t, d)
            IN  /\ r.db.error = ""
                /\ r.assignments_created = 0
                /\ r.db.assignments = assignments
                /\ r.db.fairness = fairness

\* a step of one of the four derived views
ViewStep ==
    \/ GetFairnessStats
    \/ GetPostDistributionStats
    \/ GetDashboardStats
    \/ \E p \in StatsPersonIds : GetPersonnelDetails(p)

\* a step of a request that calls update_fairness_tracking, or of the
\* recalculation
RecordingStep ==
    \/ \E p \in PersonIds, q \in PostIds, d \in DutyDays : CreateAssignment(p, q, d)
    \/ \E t \in 1..Len(ChatTexts), d \in 1..Len(DutyDateStrings) : ImportChat(t, d)
    \/ RecalculateFairness

ListedAreActiveSortedAndSummed ==
    LET listed == DistributionStats.personnel_stats
    IN  /\ \A k \in 1..Len(listed) : listed[k].person_id \in ActiveIds
        /\ \A k, m \in 1..Len(listed) :
               k < m => /\ listed[k].person_id # listed[m].person_id
                        /\ listed[k].total_assignments >= listed[m].total_assignments
        /\ \A k \in 1..Len(listed) :
               LET entries == listed[k].post_assignments
               IN  /\ \A i, j \in 1..Len(entries) :
                          i < j => entries[i].count >= entries[j].count
                   /\ listed[k].total_assignments
                          = sum_values([j \in 1..Len(entries) |->
                                           [key |-> entries[j].post_type,
                                            value |-> entries[j].count]])

\* every active person has an entry in personnel_stats
EveryActivePersonListed ==
    \A p \in ActiveIds :
        \E k \in 1..Len(DistributionStats.personnel_stats) :
            DistributionStats.personnel_stats[k].person_id = p

\* C23: get_post_distribution_stats lists every active person once, those
\* without assignments too, and no inactive person; the persons are in
\* order of total_assignments, largest first, each breakdown is in order of
\* count, largest first, and each total_assignments is the sum of the
\* counts of the person's breakdown.
C23_EveryActivePersonListedSorted ==
    /\ EveryActivePersonListed
    /\ ListedAreActiveSortedAndSummed

====
